---- MODULE Spec2Model ----
(***************************************************************************)
(* Smart Diet Analyzer (src/app.py): the Streamlit script main() seen as a *)
(* state machine.  One action is one script run of one session, started by *)
(* one user event; the run that clicks "Analyze Meal" is cut in two at the *)
(* blocking remote call, so that runs of other sessions interleave there.  *)
(***************************************************************************)
EXTENDS Integers, Sequences, FiniteSets, TLC

\* Analyze clicks a session may make before the model stops counting.
MaxAnalyze == 2

\* Browser sessions; each owns one st.session_state.
Sessions == {"s1", "s2"}

\* Python's None: session_state.get() of a missing key, a failed helper.
None == <<"None">>

\* What the remote model may answer, as sequences of text tokens.
Completions ==
    { <<>>,
      <<"Rice 200 kcal">>,
      <<"Rice 200 kcal", "\n", "Total 200 kcal">>,
      <<"<b>", "Total 200 kcal">> }

\* The file in the uploader: none, an image that decodes and re-encodes, an
\* image that decodes but has no encoder for its format, bytes that do not
\* decode.
FileKinds == {"none", "valid", "unsavable", "corrupt"}

\* The logo file at LOGO_PATH.
LogoKinds == {"missing", "valid", "corrupt"}

VARIABLES
    credential,     \* GROQ_API_KEY is set (process environment)
    logo,           \* the kind of file at LOGO_PATH
    session_state,  \* session -> the analysis_result slot (None: key absent)
    uploaded_file,  \* session -> kind of file in st.file_uploader
    pc,             \* session -> "new" (no run yet) | "ready" (a run has ended)
                    \*            | "analyzing" (a run is inside the remote call)
    controls,       \* session -> widgets rendered by the session's current run
    errors,         \* session -> error boxes rendered by the current run
    panel,          \* session -> text in the st.info result panel, or None
    clicks,         \* session -> Analyze clicks so far
    calls,          \* session -> client.chat.completions.create calls so far
    resp,           \* session -> how the Analyze handled by the last run ended
    lastOk          \* session -> text of the latest call that returned, since Clear

vars == <<credential, logo, session_state, uploaded_file, pc, controls, errors,
          panel, clicks, calls, resp, lastOk>>

NoResp == [kind |-> "none", text |-> None]

----------------------------------------------------------------------------
(* Helpers of src/app.py *)

\* Python truthiness of an Optional[str].
Truthy(v) == v /= None /\ v /= <<>>

\* Mutation of ClientHalts: the st.stop() after the error is missing.
ClientNeverHalts == FALSE

\* initialize_groq_client: st.error + st.stop unless the key is set.
ClientHalts == ~credential

\* get_logo_base64: None when the file is missing, else its base64 text.
get_logo_base64 == IF logo = "missing" THEN None ELSE <<logo>>

\* process_image returns a (base64, format) pair, or None after st.error.
process_image_ok(kind) == kind = "valid"

\* Mutation of PreviewOK: the preview's try/except/return is missing.
PreviewUnchecked(kind) == TRUE

\* st.image(Image.open(uploaded_file)) in render_sidebar raises or not.
PreviewOK(kind) == kind \in {"valid", "unsavable"}

\* report_text.replace('\n', '<br/>')
RECURSIVE ReplaceNewlines(_)
ReplaceNewlines(t) ==
    IF t = <<>> THEN <<>>
    ELSE <<IF Head(t) = "\n" THEN "<br/>" ELSE Head(t)>> \o ReplaceNewlines(Tail(t))

\* Paragraph(text, style) parses the intra-paragraph markup in its
\* constructor: the number of tags left open, or -1 on a stray close tag.
RECURSIVE OpenTags(_, _)
OpenTags(t, depth) ==
    IF t = <<>> THEN depth
    ELSE IF Head(t) = "<b>" THEN OpenTags(Tail(t), depth + 1)
    ELSE IF Head(t) = "</b>" THEN
         IF depth = 0 THEN -1 ELSE OpenTags(Tail(t), depth - 1)
    ELSE OpenTags(Tail(t), depth)

\* Paragraph(...) raises ValueError on markup that does not parse.
ParagraphRaises(text) == OpenTags(ReplaceNewlines(text), 0) /= 0

\* generate_pdf_content: the logo block is inside try/except, the story
\* (title and body paragraphs) is built outside any try, doc.build is inside.
generate_pdf_content(report_text, logo_b64) ==
    [ raised |-> ParagraphRaises(report_text),
      errors |-> IF Truthy(logo_b64) /\ logo_b64 = <<"corrupt">>
                 THEN {"Logo processing error"} ELSE {} ]

----------------------------------------------------------------------------
(* One script run *)

\* render_main_content up to the Clear button.
MainContent(slot) ==
    IF Truthy(slot)
    THEN LET pdf == generate_pdf_content(slot, get_logo_base64)
         IN  IF pdf.raised
             THEN [aborted |-> TRUE, controls |-> {},
                   errors |-> pdf.errors \cup {"Uncaught exception"}]
             ELSE [aborted |-> FALSE, controls |-> {"download", "clear"},
                   errors |-> pdf.errors]
    ELSE [aborted |-> FALSE, controls |-> {}, errors |-> {}]

\* render_sidebar up to the Analyze button.
Sidebar(file) ==
    IF file = "none" THEN [controls |-> {"upload"}, errors |-> {}]
    ELSE IF ~PreviewOK(file)
         THEN [controls |-> {"upload"}, errors |-> {"Invalid image file"}]
         ELSE [controls |-> {"upload", "analyze"}, errors |-> {}]

\* main() with no button clicked: what the run renders.
RenderPass(slot, file) ==
    IF ClientHalts
    THEN [controls |-> {}, errors |-> {"GROQ_API_KEY not found"}, panel |-> None]
    ELSE LET mc == MainContent(slot)
             sb == Sidebar(file)
         IN  IF mc.aborted
             THEN [controls |-> mc.controls, errors |-> mc.errors, panel |-> None]
             ELSE [controls |-> mc.controls \cup sb.controls,
                   errors |-> mc.errors \cup sb.errors,
                   panel |-> IF Truthy(slot) THEN slot ELSE None]

\* Mutation of SlotWrite: the result is kept in a module-level global.
SlotWriteGlobal(state, s, v) == [t \in DOMAIN state |-> v]

\* st.session_state is one store per session: a write by session s.
SlotWrite(state, s, v) == [state EXCEPT ![s] = v]

Shows(s, r) ==
    /\ controls' = [controls EXCEPT ![s] = r.controls]
    /\ errors' = [errors EXCEPT ![s] = r.errors]
    /\ panel' = [panel EXCEPT ![s] = r.panel]

\* No run of the session is in progress.
Ready(s) == pc[s] = "ready"

Init ==
    /\ credential \in BOOLEAN
    /\ logo \in LogoKinds
    /\ session_state = [s \in Sessions |-> None]
    /\ uploaded_file = [s \in Sessions |-> "none"]
    /\ pc = [s \in Sessions |-> "new"]
    /\ controls = [s \in Sessions |-> {}]
    /\ errors = [s \in Sessions |-> {}]
    /\ panel = [s \in Sessions |-> None]
    /\ clicks = [s \in Sessions |-> 0]
    /\ calls = [s \in Sessions |-> 0]
    /\ resp = [s \in Sessions |-> NoResp]
    /\ lastOk = [s \in Sessions |-> None]

\* The browser opens the page: the session's first run of main().
Open(s) ==
    /\ pc[s] = "new"
    /\ pc' = [pc EXCEPT ![s] = "ready"]
    /\ Shows(s, RenderPass(session_state[s], uploaded_file[s]))
    /\ UNCHANGED <<credential, logo, session_state, uploaded_file, clicks, calls,
                   resp, lastOk>>

\* The user reruns the script (R, or any widget without a handler).
Rerun(s) ==
    /\ Ready(s)
    /\ Shows(s, RenderPass(session_state[s], uploaded_file[s]))
    /\ resp' = [resp EXCEPT ![s] = NoResp]
    /\ UNCHANGED <<credential, logo, session_state, uploaded_file, pc, clicks,
                   calls, lastOk>>

\* The user puts a file in the uploader, replaces it or removes it.
Upload(s, kind) ==
    /\ Ready(s)
    /\ "upload" \in controls[s]
    /\ kind /= uploaded_file[s]
    /\ uploaded_file' = [uploaded_file EXCEPT ![s] = kind]
    /\ Shows(s, RenderPass(session_state[s], kind))
    /\ resp' = [resp EXCEPT ![s] = NoResp]
    /\ UNCHANGED <<credential, logo, session_state, pc, clicks, calls, lastOk>>

\* The user clicks "Download Nutrition Report": the browser saves the PDF the
\* run had built, and the script reruns.
Download(s) ==
    /\ Ready(s)
    /\ "download" \in controls[s]
    /\ Shows(s, RenderPass(session_state[s], uploaded_file[s]))
    /\ resp' = [resp EXCEPT ![s] = NoResp]
    /\ UNCHANGED <<credential, logo, session_state, uploaded_file, pc, clicks,
                   calls, lastOk>>

\* Mutation of ClearFile: Clear also empties the uploader.
ClearFileToo(file) == "none"

\* The Clear button's handler (del st.session_state.analysis_result): the
\* slot afterwards, and the uploader's file afterwards (not touched).
ClearSlot(slot) == None

ClearFile(file) == file

\* The user clicks "Clear Analysis": the run renders the main content up to
\* the button, deletes the slot and reruns (st.rerun).
Clear(s) ==
    /\ Ready(s)
    /\ "clear" \in controls[s]
    /\ LET shown == "clear" \in RenderPass(session_state[s], uploaded_file[s]).controls
           slot == IF shown THEN ClearSlot(session_state[s]) ELSE session_state[s]
           file == IF shown THEN ClearFile(uploaded_file[s]) ELSE uploaded_file[s]
       IN  /\ session_state' = SlotWrite(session_state, s, slot)
           /\ uploaded_file' = [uploaded_file EXCEPT ![s] = file]
           /\ lastOk' = [lastOk EXCEPT ![s] = IF shown THEN None ELSE @]
           /\ Shows(s, RenderPass(slot, file))
           /\ resp' = [resp EXCEPT ![s] =
                         IF shown THEN [kind |-> "cleared", text |-> None] ELSE NoResp]
    /\ UNCHANGED <<credential, logo, pc, clicks, calls>>

\* Mutation of RemoteCall: the request is sent a second time.
RemoteCallTwice(n) == n + 2

\* generate_ai_analysis issues one client.chat.completions.create call.
RemoteCall(n) == n + 1

\* The user clicks "Analyze Meal": the run renders the page up to the button,
\* then process_image; on a pair it enters the remote call and blocks there.
AnalyzeClick(s) ==
    /\ Ready(s)
    /\ "analyze" \in controls[s]
    /\ clicks[s] < MaxAnalyze
    /\ clicks' = [clicks EXCEPT ![s] = @ + 1]
    /\ LET r == RenderPass(session_state[s], uploaded_file[s])
       IN  IF "analyze" \notin r.controls
           THEN /\ Shows(s, r)
                /\ resp' = [resp EXCEPT ![s] = NoResp]
                /\ UNCHANGED <<pc, calls>>
           ELSE IF process_image_ok(uploaded_file[s])
           THEN /\ pc' = [pc EXCEPT ![s] = "analyzing"]
                /\ calls' = [calls EXCEPT ![s] = RemoteCall(@)]
                /\ Shows(s, r)
                /\ resp' = [resp EXCEPT ![s] = NoResp]
           ELSE /\ Shows(s, [r EXCEPT !.errors = @ \cup {"Image processing error"}])
                /\ resp' = [resp EXCEPT ![s] = [kind |-> "noimage", text |-> None]]
                /\ UNCHANGED <<pc, calls>>
    /\ UNCHANGED <<credential, logo, session_state, uploaded_file, lastOk>>

\* How client.chat.completions.create ends: it raises, or it returns a
\* response whose choices[0].message.content is one of Completions.
Outcomes ==
    {[kind |-> "raised", text |-> None]}
        \cup {[kind |-> "completion", text |-> c] : c \in Completions}

\* generate_ai_analysis: the content verbatim, or None after st.error.
generate_ai_analysis(outcome) ==
    IF outcome.kind = "raised" THEN None ELSE outcome.text

\* Mutation of StoreResult: the "if analysis:" test is missing.
StoreAlways(slot, analysis) == analysis

\* if analysis: st.session_state.analysis_result = analysis
StoreResult(slot, analysis) == IF Truthy(analysis) THEN analysis ELSE slot

\* The remote call ends and the Analyze handler finishes its run.
AnalyzeReturn(s, outcome) ==
    /\ pc[s] = "analyzing"
    /\ pc' = [pc EXCEPT ![s] = "ready"]
    /\ LET analysis == generate_ai_analysis(outcome)
           slot == StoreResult(session_state[s], analysis)
       IN  /\ session_state' = SlotWrite(session_state, s, slot)
           /\ IF Truthy(analysis)
              THEN Shows(s, RenderPass(slot, uploaded_file[s]))
              ELSE /\ errors' = [errors EXCEPT ![s] =
                         IF outcome.kind = "raised" THEN @ \cup {"API Error"} ELSE @]
                   /\ UNCHANGED <<controls, panel>>
    /\ resp' = [resp EXCEPT ![s] = outcome]
    /\ lastOk' = [lastOk EXCEPT ![s] =
                     IF outcome.kind = "completion" THEN outcome.text ELSE @]
    /\ UNCHANGED <<credential, logo, uploaded_file, clicks, calls>>

Next ==
    \E s \in Sessions :
        \/ Open(s)
        \/ Rerun(s)
        \/ \E kind \in FileKinds : Upload(s, kind)
        \/ Download(s)
        \/ Clear(s)
        \/ AnalyzeClick(s)
        \/ \E outcome \in Outcomes : AnalyzeReturn(s, outcome)

Spec == Init /\ [][Next]_vars
----------------------------------------------------------------------------
(* Properties *)

AnalyzeErrors == {"Image processing error", "API Error"}

\* In s's step the Analyze handler ended without a completion.
AnalyzeFailed(s) ==
    \/ clicks'[s] = clicks[s] + 1 /\ resp'[s].kind = "noimage"
    \/ pc[s] = "analyzing" /\ pc'[s] = "ready" /\ resp'[s].kind = "raised"

\* In s's step the Clear handler deleted a stored result.
ClearStep(s) == session_state[s] /= None /\ session_state'[s] = None

\* C1: the slot is absent or one complete text, and a text in the slot is the
\* one returned by the latest remote call that returned, since the last Clear.
C1_SlotIsLatestResult ==
    \A s \in Sessions :
        /\ session_state[s] \in Completions \cup {None}
        /\ session_state[s] /= None => session_state[s] = lastOk[s]

\* C2: an Analyze that fails (process_image gives None, or the remote call
\* raises) leaves the slot as it was, shows an error, and leaves Analyze
\* offered on the same file with the session ready for it.
C2_FailedAnalyzeStoresNothing ==
    [][\A s \in Sessions :
          AnalyzeFailed(s) =>
              /\ session_state'[s] = session_state[s]
              /\ errors'[s] \cap AnalyzeErrors /= {}
              /\ uploaded_file'[s] = uploaded_file[s]
              /\ "analyze" \in controls'[s]
              /\ pc'[s] = "ready"]_vars

C2_Witness ==
    \E s \in Sessions :
        /\ resp[s].kind = "raised"
        /\ session_state[s] \in Completions
        /\ "API Error" \in errors[s]

\* C3: a finished Analyze either got a completion, and then the slot and the
\* result panel hold its text, or failed, and then an error is shown.
C3_AnalyzeResolves ==
    \A s \in Sessions :
        /\ resp[s].kind = "completion" =>
               session_state[s] = resp[s].text /\ panel[s] = resp[s].text
        /\ resp[s].kind \in {"raised", "noimage"} =>
               errors[s] \cap AnalyzeErrors /= {} /\ pc[s] = "ready"

\* C4: a finished run shows Download and Clear exactly when the slot holds a
\* result, and shows the result panel only then.
C4_ControlsIffResult ==
    \A s \in Sessions :
        pc[s] = "ready" =>
            /\ {"download", "clear"} \subseteq controls[s] <=> session_state[s] /= None
            /\ panel[s] /= None => session_state[s] /= None

NoFileNoActions ==
    \A s \in Sessions :
        uploaded_file[s] = "none" =>
            controls[s] \cap {"analyze", "download", "clear"} = {}

C6_NoUncaughtFailure ==
    \A s \in Sessions :
        /\ "Uncaught exception" \notin errors[s]
        /\ credential /\ pc[s] = "ready" => "upload" \in controls[s]

\* C7: without the credential every run halts with the configuration error:
\* no control is offered, no remote call is made, the slot is never written.
C7_NoCredentialHalts ==
    ~credential =>
        \A s \in Sessions :
            /\ controls[s] = {}
            /\ pc[s] /= "analyzing"
            /\ pc[s] = "ready" => errors[s] = {"GROQ_API_KEY not found"}
            /\ calls[s] = 0 /\ clicks[s] = 0
            /\ session_state[s] = None /\ panel[s] = None

C7_Witness ==
    /\ ~credential
    /\ \A s \in Sessions :
           pc[s] = "ready" /\ "GROQ_API_KEY not found" \in errors[s]

\* C8: while the selected file does not decode, Analyze is not offered and an
\* error is shown; no run on that file enters the remote call, counts a call
\* or stores a result.
C8_CorruptFileNeverAnalyzed ==
    [][\A s \in Sessions :
          /\ uploaded_file'[s] = "corrupt" =>
                 /\ "analyze" \notin controls'[s]
                 /\ pc'[s] /= "analyzing"
                 /\ "Invalid image file" \in errors'[s]
          /\ uploaded_file[s] = "corrupt" =>
                 /\ calls'[s] = calls[s]
                 /\ clicks'[s] = clicks[s]
                 /\ session_state'[s] \in {session_state[s], None}]_vars

C8_Witness ==
    \E s \in Sessions :
        /\ uploaded_file[s] = "corrupt"
        /\ "Invalid image file" \in errors[s]
        /\ session_state[s] = None
        /\ calls[s] = 0

\* C9: a session makes at most one remote call per Analyze click and none
\* otherwise; a call that ends, failed or not, is not followed by another
\* one without a new click.
C9_NoAutomaticRetry ==
    [][\A s \in Sessions :
          /\ calls'[s] <= clicks'[s]
          /\ calls'[s] \in {calls[s], calls[s] + 1}
          /\ calls'[s] /= calls[s] => clicks'[s] = clicks[s] + 1
          /\ pc[s] = "analyzing" => calls'[s] = calls[s]]_vars

C9_Witness ==
    \E s \in Sessions :
        /\ resp[s].kind = "raised"
        /\ pc[s] = "ready"
        /\ calls[s] = MaxAnalyze /\ clicks[s] = MaxAnalyze

\* C10: while a session's Analyze is unresolved nothing else of that session
\* is processed (no click is counted, the slot is written only by the
\* Analyze's own resolution), and a step changes the slot of one session at
\* most, that of the session whose handler ran.
C10_OneWriterPerSlot ==
    [][/\ \A s \in Sessions :
              /\ pc[s] = "analyzing" =>
                     /\ clicks'[s] = clicks[s]
                     /\ uploaded_file'[s] = uploaded_file[s]
                     /\ session_state'[s] /= session_state[s] =>
                            /\ pc'[s] = "ready"
                            /\ resp'[s].kind = "completion"
                            /\ session_state'[s] = resp'[s].text
              /\ pc[s] /= "analyzing" /\ session_state'[s] /= session_state[s] =>
                     "clear" \in controls[s] /\ resp'[s].kind = "cleared"
       /\ \A s, t \in Sessions :
              s /= t /\ session_state'[s] /= session_state[s] =>
                  session_state'[t] = session_state[t]]_vars

C10_Witness ==
    \E s, t \in Sessions :
        /\ s /= t
        /\ pc[s] = "analyzing"
        /\ session_state[s] \in Completions
        /\ resp[t].kind = "completion"
        /\ session_state[t] \in Completions
        /\ session_state[t] /= session_state[s]
====
